---- MODULE Spec2Model ----
(***************************************************************************)
(* Model of the InfoPoint display rotation engine (scripts/switcher.sh):   *)
(* the flock run-lock, the network gate, the rotation loop with its        *)
(* separate jq reads of the configuration file, the Chromium supervision   *)
(* through the pid file, and the SIGTERM/SIGINT trap.                      *)
(*                                                                         *)
(* One action is one shell command (or one uninterrupted group of          *)
(* builtins).  Bash runs a pending trap only between commands, so a        *)
(* pending signal is taken by Trap before the next command of that engine. *)
(*                                                                         *)
(* The dashboard (index.js) is the second process: loadConfig, saveConfig  *)
(* over the primary and the backup file, and the handler of POST           *)
(* /api/urls.  It is checked on its own (SpecStore); to the engine it is   *)
(* the writer of the configuration file (WriteConfig).                     *)
(***************************************************************************)
EXTENDS Integers, Sequences, FiniteSets, TLC

VARIABLES
    cfg,              \* content of CONFIG_FILE (urls.json)
    dirty,            \* ghost: engines whose jq reads were crossed by a rewrite of CONFIG_FILE
                      \*        since their last get_url_count
    epc,              \* position of every engine process in the script
    sig,              \* engines with a termination signal pending
    exitStatus,       \* exit status of the last run of every engine (-1: none)
    reach,            \* ghost: engines whose last reachability poll succeeded
    holders,          \* engines whose fd 200 holds the flock
    fdInherit,        \* browser processes that inherited the locked fd 200
    alive,            \* pids of the live browser processes
    pidfile,          \* content of CHROMIUM_PID_FILE (0: no file)
    current_index,    \* main: local current_index
    url_count,        \* main: local url_count
    current_url,      \* main: local current_url
    timeout_raw,      \* get_timeout: local timeout
    timeout,          \* main: local timeout
    transition_delay, \* main: local transition_delay
    chromium_pid,     \* start_chromium: local chromium_pid
    clamped,          \* ghost: how the clamp of the current tick acted ("no", "wrap", "shrink")
    navOk,            \* ghost: outcome of the last wmctrl/wtype automation during its dwell
    crashed,          \* ghost: the recorded browser died during a dwell and was not replaced yet
    sleep_left,       \* seconds left of the foreground sleep an engine waits for (NoSleep: none)
    elapsed,          \* wait_with_progress: local elapsed
    late,             \* ghost: seconds an engine has slept on with a signal pending
    slept,            \* ghost: seconds the running wait_with_progress has slept
    watch,            \* the shutdown is followed: pid and nsig are recorded
    pid,              \* cleanup: local pid (0: not set); it is never read after the kill
    nsig,             \* ghost: termination signals sent to the current run of an engine
    budget,           \* faults the environment may still inject (Unlimited: any number)
    configFile,       \* dashboard: CONFIG_FILE as index.js finds it
    backupFile,       \* dashboard: BACKUP_CONFIG_FILE
    dpc,              \* dashboard: position of the node process
    req,              \* dashboard: req.body of the last POST /api/urls
    response,         \* dashboard: answer to the last request ("none", "ok", "fail")
    timer,            \* dashboard: a restart of the engine is scheduled
    loaded,           \* dashboard: what the last loadConfig returned
    wrote,            \* ghost: how the last saveConfig went ("none": the files were
                      \*        not written by the last handler, or were touched since)
    lastop,           \* ghost: the last thing that happened to the dashboard ("repost": a
                      \*        POST whose body is what the last load returned)
    lastGood,         \* ghost: content written by the last saveConfig whose two writes succeeded
    restored          \* ghost: the configuration a load took from the backup and that no
                      \*        later save has replaced

vars == << cfg, dirty, epc, sig, exitStatus, reach, holders, fdInherit,
           alive, pidfile, current_index, url_count, current_url, timeout_raw,
           timeout, transition_delay, chromium_pid, clamped, navOk, crashed,
           sleep_left, elapsed, late, slept, watch, pid, nsig, budget,
           configFile, backupFile, dpc, req, response, timer, loaded, wrote,
           lastop, lastGood, restored >>

(***************************************************************************)
(* Bounds                                                                  *)
(***************************************************************************)
NEngines == 2
MaxItems == 2
MaxPid == 2
MaxFaults == 2        \* faults injected in a run that is checked for liveness
SigCap == 2           \* signals counted per run
ShortInterval == 1    \* seconds within which a shutdown is called prompt
LateCap == ShortInterval + 1
MaxDwellSec == 35      \* longest dwell whose sleeps are added up

Engines == 1..NEngines
Pids == 1..MaxPid

(***************************************************************************)
(* Values.  jq -r prints the word null for a missing value and nothing     *)
(* when it fails; numbers stand for the strings the shell holds.           *)
(***************************************************************************)
Null == -1            \* the output "null"
Empty == -2           \* the empty output ""
Malformed == -3       \* a printed value that is no integer for the shell (1500.5, 5s)
DefaultTimeout == 30000
DefaultDelay == 2000
BadTimeout == 500
ItemTimeout == 5000
GlobalTimeout == 3000
MinTimeout == 1000
MsPerSec == 1000
GateSleepSec == 5
ParseSleepSec == 10
EmptySleepSec == 30
progress_interval == 10
NoSleep == -1         \* the engine waits for no foreground sleep
Unlimited == -1       \* the environment injects faults without a limit

\* CONFIG_FILE does not exist
Missing == [kind |-> "missing", urls |-> << >>, globalTimeout |-> Null, transitionDelay |-> Null]
\* CONFIG_FILE is not valid JSON (also a partly written file)
BadJson == [kind |-> "badjson", urls |-> << >>, globalTimeout |-> Null, transitionDelay |-> Null]

Timing == { [t |-> ItemTimeout, g |-> GlobalTimeout, d |-> 0],
            [t |-> BadTimeout,  g |-> GlobalTimeout, d |-> 0],
            [t |-> Null,        g |-> Null,          d |-> Null],
            [t |-> Malformed,   g |-> Null,          d |-> Null] }

\* the i-th item of a list: its url is named by its position
Item(i, t) == [url |-> i, timeout |-> t]

Configs == { [kind |-> "json", urls |-> [i \in 1..n |-> Item(i, p.t)],
              globalTimeout |-> p.g, transitionDelay |-> p.d] :
             n \in 0..MaxItems, p \in Timing }

Files == {Missing, BadJson} \cup Configs

\* a list whose first item has the empty string as url
BadItemConfigs ==
    { [kind |-> "json", urls |-> << [url |-> Empty, timeout |-> Null], Item(2, Null) >>,
       globalTimeout |-> Null, transitionDelay |-> Null] }

IsConfig(f) == f.kind = "json"

(***************************************************************************)
(* The jq readers of the configuration file                                *)
(***************************************************************************)
\* parse_config: the file exists and jq accepts it
parse_config(f) == IsConfig(f)

\* get_url_count: jq '.urls | length' || echo "0"
get_url_count(f) == IF IsConfig(f) THEN Len(f.urls) ELSE 0

\* get_url: jq -r ".urls[$index].url" || echo ""
get_url(f, index) ==
    IF ~IsConfig(f) THEN Empty
    ELSE IF index + 1 \in DOMAIN f.urls THEN f.urls[index + 1].url
    ELSE Null

\* get_timeout, first read: jq -r ".urls[$index].timeout"
jq_item_timeout(f, index) ==
    IF ~IsConfig(f) THEN Empty
    ELSE IF index + 1 \in DOMAIN f.urls THEN f.urls[index + 1].timeout
    ELSE Null

\* get_timeout, second read: jq -r ".globalTimeout"
jq_global_timeout(f) == IF IsConfig(f) THEN f.globalTimeout ELSE Empty

\* get_timeout, the choice between the two values read and the fallback
resolve_timeout(t, g) ==
    IF t # Null /\ t # Empty THEN t
    ELSE IF g # Null /\ g # Empty THEN g
    ELSE DefaultTimeout

\* get_timeout on one unchanged file
get_timeout(f, index) == resolve_timeout(jq_item_timeout(f, index), jq_global_timeout(f))

\* faulty variant of get_transition_delay: the file is not looked at
get_transition_delay_fixed(f) == DefaultDelay

\* get_transition_delay
get_transition_delay(f) ==
    LET delay == IF IsConfig(f) THEN f.transitionDelay ELSE Empty
    IN IF delay # Null /\ delay # Empty THEN delay ELSE DefaultDelay

(***************************************************************************)
(* Lock, supervisor and loop helpers                                       *)
(***************************************************************************)
\* faulty variant of flock_n: the result of flock is not looked at
flock_n_unchecked(h, inh) == TRUE

\* flock -n 200: the lock is free when no open description of the lock file
\* holds it, neither an engine's fd 200 nor a copy inherited by a browser
flock_n(h, inh) == h = {} /\ inh = {}

\* faulty variant of is_chromium_running: the browser is never found running
is_chromium_running_never(pf, live) == FALSE

\* faulty variant of is_chromium_running: the pid file is trusted without ps -p
is_chromium_running_stale(pf, live) == pf # 0

\* is_chromium_running: the pid file exists and ps -p finds its pid
is_chromium_running(pf, live) == pf # 0 /\ pf \in live

\* faulty variant of gate_next: the loop is left after the first poll
gate_next_once(ok) == "parse"

\* while ! ping ...: the loop is left on the first successful poll
gate_next(ok) == IF ok THEN "parse" ELSE "gate_sleep"

\* faulty variant of clamp_index: -gt in place of -ge
clamp_index_gt(index, count) == IF index > count THEN 0 ELSE index

\* "Reset index if it exceeds available URLs"
clamp_index(index, count) == IF index >= count THEN 0 ELSE index

\* "Move to next URL"
next_index(index) == index + 1

\* the outcomes the environment can give to a step that may fail, and what
\* a failure costs
Outcomes(b) == IF b = 0 THEN {TRUE} ELSE BOOLEAN
Spend(b) == IF b > 0 THEN b - 1 ELSE b

(***************************************************************************)
(* The dashboard (index.js): the values loadConfig, saveConfig and the     *)
(* handler of POST /api/urls work on.  A url is named by a number, as in   *)
(* the lists above; the built-in items take the names 91..93.              *)
(***************************************************************************)
BadUrl == -4          \* a string that new URL() rejects
TextTimeout == -5     \* a timeout that is a non-empty string
ItemAsUrl == -6       \* the item object itself, where item.url is missing
CustomName == 7       \* a name given by the user

\* new URL(u) does not throw
UrlParses(u) == u > 0

\* new URL(u).hostname
hostname(u) == u + 100

\* a value is falsy for || and && (missing, 0)
Falsy(x) == x = Null \/ x = 0

\* an item of a list; str: the item is a bare string (legacy schema)
DItem(u, t, n) == [str |-> FALSE, url |-> u, timeout |-> t, name |-> n]
SItem(u) == [str |-> TRUE, url |-> u, timeout |-> Null, name |-> Null]

\* a parsed JSON value.  shape: "object", "array" (legacy schema), "scalar"
\* (null, a number), "object_idx" (an object that also has index keys);
\* uk: the key urls is "absent", holds a "list" or holds something else
\* ("notlist")
Value(s, k, u, g, d) ==
    [shape |-> s, uk |-> k, urls |-> u, globalTimeout |-> g, transitionDelay |-> d]
ObjectValue(u, g, d) == Value("object", "list", u, g, d)
ArrayValue(u) == Value("array", "absent", u, Null, Null)
ScalarValue == Value("scalar", "absent", << >>, Null, Null)
NoValue == Value("none", "absent", << >>, Null, Null)
\* what a caller holds when loadConfig has thrown
Raised == Value("raised", "absent", << >>, Null, Null)

\* const defaultConfig
defaultConfig ==
    ObjectValue(<< DItem(91, 30000, 191), DItem(92, 45000, 192), DItem(93, 20000, 193) >>,
                DefaultTimeout, DefaultDelay)

\* a file: it does not exist, it cannot be read, it holds no JSON (also a
\* partly written file), or it holds the text of a value
NoFile(k) == [kind |-> k, value |-> NoValue]
Absent == NoFile("absent")
Unreadable == NoFile("unreadable")
NotJson == NoFile("notjson")
NoSave == NoFile("nosave")

\* JSON.stringify(config, null, 2), as the content of a file
stringify(c) == [kind |-> "json", value |-> c]

\* faulty variant of spread: the built-in values win over the file's
spread_defaults_win(c) == defaultConfig

\* { ...defaultConfig, ...c }
spread(c) ==
    CASE c.shape = "scalar" -> defaultConfig
      [] c.shape = "array"  -> [defaultConfig EXCEPT !.shape = "object_idx"]
      [] OTHER ->
           Value(c.shape,
                 IF c.uk = "absent" THEN defaultConfig.uk ELSE c.uk,
                 IF c.uk = "absent" THEN defaultConfig.urls ELSE c.urls,
                 IF c.globalTimeout = Null THEN defaultConfig.globalTimeout
                                           ELSE c.globalTimeout,
                 IF c.transitionDelay = Null THEN defaultConfig.transitionDelay
                                             ELSE c.transitionDelay)

\* the callback of config.map throws on this item: new URL() rejects it
MigrateThrows(item) ==
    IF item.str THEN ~UrlParses(item.url)
    ELSE Falsy(item.name) /\ ~UrlParses(item.url)

\* the callback of config.map
migrateItem(item) ==
    IF item.str THEN DItem(item.url, defaultConfig.globalTimeout, hostname(item.url))
    ELSE DItem(IF Falsy(item.url) THEN ItemAsUrl ELSE item.url,
               IF Falsy(item.timeout) THEN defaultConfig.globalTimeout ELSE item.timeout,
               IF Falsy(item.name) THEN hostname(item.url) ELSE item.name)

\* faulty variant of migratedConfig: the array is passed on as it is
migratedConfig_asis(c) == c

\* const migratedConfig
migratedConfig(c) ==
    ObjectValue([i \in DOMAIN c.urls |-> migrateItem(c.urls[i])],
                defaultConfig.globalTimeout, defaultConfig.transitionDelay)

\* how a run of saveConfig goes: both writes succeed; the first write throws
\* and leaves the file as it was or partly written; the second write does;
\* the process is killed between the two writes
SaveOutcomes == {"ok", "pfail", "ptorn", "bfail", "btorn", "killed"}

\* faulty variant of saveConfig: the backup is written first
saveConfig_backup_first(p, b, c, w) ==
    CASE w = "ok"     -> [primary |-> stringify(c), backup |-> stringify(c), killed |-> FALSE]
      [] w = "pfail"  -> [primary |-> p,            backup |-> stringify(c), killed |-> FALSE]
      [] w = "ptorn"  -> [primary |-> NotJson,      backup |-> stringify(c), killed |-> FALSE]
      [] w = "bfail"  -> [primary |-> p,            backup |-> b,            killed |-> FALSE]
      [] w = "btorn"  -> [primary |-> p,            backup |-> NotJson,      killed |-> FALSE]
      [] w = "killed" -> [primary |-> p,            backup |-> stringify(c), killed |-> TRUE]

\* saveConfig on the files p (primary) and b (backup); every exception is
\* caught and logged
saveConfig(p, b, c, w) ==
    CASE w = "ok"     -> [primary |-> stringify(c), backup |-> stringify(c), killed |-> FALSE]
      [] w = "pfail"  -> [primary |-> p,            backup |-> b,            killed |-> FALSE]
      [] w = "ptorn"  -> [primary |-> NotJson,      backup |-> b,            killed |-> FALSE]
      [] w = "bfail"  -> [primary |-> stringify(c), backup |-> b,            killed |-> FALSE]
      [] w = "btorn"  -> [primary |-> stringify(c), backup |-> NotJson,      killed |-> FALSE]
      [] w = "killed" -> [primary |-> stringify(c), backup |-> b,            killed |-> TRUE]

\* the result of a load that writes nothing
Loaded(r, p, b) ==
    [result |-> r, threw |-> FALSE, primary |-> p, backup |-> b,
     wrote |-> "none", killed |-> FALSE]
\* an exception leaves the try block of loadConfig
Thrown(p, b) ==
    [result |-> Raised, threw |-> TRUE, primary |-> p, backup |-> b,
     wrote |-> "none", killed |-> FALSE]

\* fs.readFileSync or JSON.parse throws on the file
ReadThrows(f) == f.kind \in {"unreadable", "notjson"}

\* the try block of loadConfig
loadTry(p, b, w) ==
    IF p.kind # "absent" THEN
        IF ReadThrows(p) THEN Thrown(p, b)
        ELSE IF p.value.shape = "array" THEN
            IF \E i \in DOMAIN p.value.urls : MigrateThrows(p.value.urls[i])
            THEN Thrown(p, b)
            ELSE LET s == saveConfig(p, b, migratedConfig(p.value), w)
                 IN [result |-> migratedConfig(p.value), threw |-> FALSE,
                     primary |-> s.primary, backup |-> s.backup,
                     wrote |-> w, killed |-> s.killed]
        ELSE Loaded(spread(p.value), p, b)
    ELSE IF b.kind # "absent" THEN
        IF ReadThrows(b) THEN Thrown(p, b)
        ELSE Loaded(spread(b.value), p, b)
    ELSE Loaded(defaultConfig, p, b)

\* faulty variant of loadConfig: no catch
loadConfig_nocatch(p, b, w) == loadTry(p, b, w)

\* loadConfig: catch (error) { return defaultConfig }
loadConfig(p, b, w) ==
    LET t == loadTry(p, b, w)
    IN IF t.threw THEN Loaded(defaultConfig, p, b) ELSE t

\* the checks of POST /api/urls pass
PostAccepts(r) ==
    /\ r.uk = "list"
    /\ Len(r.urls) # 0
    /\ \A i \in DOMAIN r.urls :
         /\ ~Falsy(r.urls[i].url)
         /\ r.urls[i].url # ItemAsUrl
         /\ UrlParses(r.urls[i].url)
         /\ ~(~Falsy(r.urls[i].timeout)
              /\ (r.urls[i].timeout = TextTimeout \/ r.urls[i].timeout < MinTimeout))

\* the lists the files and the requests are made of
GoodA == DItem(1, ItemTimeout, CustomName)
GoodB == DItem(2, Null, Null)
BadU == DItem(BadUrl, Null, CustomName)
NoU == DItem(Null, Null, CustomName)
Short == DItem(1, BadTimeout, Null)
Zero == DItem(1, 0, Null)
Text == DItem(1, TextTimeout, Null)

Lists == { << GoodB, GoodA >>, << GoodB, BadU, GoodA >>, << BadU >>,
           << NoU >>, << Short >>, << Zero >>, << Text >>, << >> }

\* objects with a key urls that holds no list, or without the key
Misshaped ==
    { Value("object", "absent", << >>, GlobalTimeout, 0),
      Value("object", "notlist", << >>, GlobalTimeout, 0) }

\* request bodies
Requests ==
    { ObjectValue(u, GlobalTimeout, 0) : u \in Lists }
      \cup { ObjectValue(<< GoodB >>, Null, Null) } \cup Misshaped

\* files in the current schema
ObjectValues ==
    { ObjectValue(<< GoodB, GoodA >>, GlobalTimeout, 0),
      ObjectValue(<< GoodB >>, Null, Null),
      ObjectValue(<< GoodB, BadU, GoodA >>, GlobalTimeout, 0),
      ObjectValue(<< BadU >>, GlobalTimeout, 0),
      ObjectValue(<< Short >>, GlobalTimeout, 0),
      ObjectValue(<< >>, GlobalTimeout, 0) } \cup Misshaped

\* legacy files
LegacyValues ==
    { ArrayValue(<< SItem(1), SItem(2) >>),
      ArrayValue(<< DItem(1, ItemTimeout, Null), SItem(2) >>),
      ArrayValue(<< DItem(2, 0, CustomName) >>),
      ArrayValue(<< SItem(BadUrl), SItem(1) >>),
      ArrayValue(<< DItem(BadUrl, Null, Null) >>),
      ArrayValue(<< BadU, GoodB >>),
      ArrayValue(<< >>) }

\* the files the dashboard can find when it is first started
FoundFiles ==
    {Absent, Unreadable, NotJson, stringify(ScalarValue)}
      \cup { stringify(v) : v \in ObjectValues }
      \cup { stringify(v) : v \in LegacyValues }

\* the backups it can find
FoundBackups ==
    { Absent, Unreadable, NotJson,
      stringify(ObjectValue(<< GoodA >>, GlobalTimeout, 0)),
      stringify(ArrayValue(<< SItem(1) >>)) }

MainPcs == {"gate", "gate_sleep", "parse", "parse_sleep", "count", "empty_sleep",
            "get_url", "get_timeout", "get_global", "get_delay",
            "check_url", "nav", "inplace", "start_pkill", "start_launch",
            "start_record", "dwell", "transition", "advance"}
GatePcs == {"gate", "gate_sleep"}
CyclingPcs == MainPcs \ GatePcs
CleanupPcs == {"cleanup", "cleanup_pkill", "cleanup_exit"}
StoppedPcs == {"off", "exited"}

TypeOK ==
    /\ cfg \in Files \cup BadItemConfigs
    /\ dirty \subseteq Engines
    /\ epc \in [Engines -> MainPcs \cup CleanupPcs \cup StoppedPcs \cup {"trap", "nolock"}]
    /\ sig \subseteq Engines
    /\ exitStatus \in [Engines -> {-1, 0, 1}]
    /\ reach \subseteq Engines
    /\ holders \subseteq Engines
    /\ fdInherit \subseteq Pids
    /\ alive \subseteq Pids
    /\ pidfile \in {0} \cup Pids
    /\ current_index \in [Engines -> 0..(MaxItems + 1)]
    /\ url_count \in [Engines -> 0..MaxItems]
    /\ chromium_pid \in [Engines -> {0} \cup Pids]
    /\ sleep_left \in [Engines -> {NoSleep} \cup Nat]
    /\ elapsed \in [Engines -> Nat]
    /\ late \in [Engines -> 0..LateCap]
    /\ slept \in [Engines -> Nat]
    /\ watch \in BOOLEAN
    /\ pid \in [Engines -> {0} \cup Pids]
    /\ nsig \in [Engines -> 0..SigCap]
    /\ budget \in {Unlimited} \cup 0..MaxFaults
    /\ configFile.kind \in {"absent", "unreadable", "notjson", "json"}
    /\ backupFile.kind \in {"absent", "unreadable", "notjson", "json"}
    /\ dpc \in {"down", "idle", "respond", "arm"}
    /\ req.shape \in {"none", "object", "object_idx"}
    /\ response \in {"none", "ok", "fail"}
    /\ timer \in BOOLEAN
    /\ loaded.shape \in {"none", "object", "object_idx"}
    /\ wrote \in SaveOutcomes \cup {"none"}
    /\ lastop \in {"none", "boot", "load", "post", "repost", "crash", "env"}
    /\ lastGood.kind \in {"nosave", "json"}
    /\ restored.shape \in {"none", "object", "object_idx"}

Booted ==
    /\ cfg \in Files
    /\ dirty = {}
    /\ epc = [e \in Engines |-> "off"]
    /\ sig = {}
    /\ exitStatus = [e \in Engines |-> -1]
    /\ reach = {}
    /\ holders = {}
    /\ fdInherit = {}
    /\ alive = {}
    /\ pidfile = 0
    /\ current_index = [e \in Engines |-> 0]
    /\ url_count = [e \in Engines |-> 0]
    /\ current_url = [e \in Engines |-> Empty]
    /\ timeout_raw = [e \in Engines |-> Empty]
    /\ timeout = [e \in Engines |-> Empty]
    /\ transition_delay = [e \in Engines |-> Empty]
    /\ chromium_pid = [e \in Engines |-> 0]
    /\ clamped = [e \in Engines |-> "no"]
    /\ navOk = "none"
    /\ crashed = FALSE
    /\ sleep_left = [e \in Engines |-> NoSleep]
    /\ elapsed = [e \in Engines |-> 0]
    /\ late = [e \in Engines |-> 0]
    /\ slept = [e \in Engines |-> 0]
    /\ pid = [e \in Engines |-> 0]
    /\ nsig = [e \in Engines |-> 0]

store == << configFile, backupFile, dpc, req, response, timer, loaded, wrote,
           lastop, lastGood, restored >>

\* the dashboard is not running and has handled nothing
StoreIdle ==
    /\ dpc = "down"
    /\ req = NoValue
    /\ response = "none"
    /\ timer = FALSE
    /\ loaded = NoValue
    /\ wrote = "none"
    /\ lastop = "none"
    /\ lastGood = NoSave
    /\ restored = NoValue

\* the dashboard is left out
StoreOff == StoreIdle /\ configFile = Absent /\ backupFile = Absent

Init == Booted /\ StoreOff /\ watch = FALSE /\ budget = Unlimited

(***************************************************************************)
(* Engine steps.  At(e, l): engine e is about to run the command at l and  *)
(* no trap is pending for it.                                              *)
(***************************************************************************)
At(e, l) == epc[e] = l /\ e \notin sig
Goto(e, l) == epc' = [epc EXCEPT ![e] = l]

\* the sleep at l returns.  An engine that was followed into the sleep
\* (Sleep) leaves it when the time is up, whatever signal is pending; else
\* the sleep is one step like every other command.
Slept(e, l) ==
    /\ epc[e] = l
    /\ IF sleep_left[e] = NoSleep THEN e \notin sig ELSE sleep_left[e] = 0
Wake(e) == sleep_left' = [sleep_left EXCEPT ![e] = NoSleep]

locals == << current_index, url_count, current_url, timeout_raw, timeout,
             transition_delay, chromium_pid >>
procs == << alive, pidfile, fdInherit >>
ghosts == << dirty, reach, clamped, navOk, crashed >>
clock == << sleep_left, elapsed, late, slept >>
shut == << watch, pid, nsig >>

\* a process is started (systemd unit, Restart=always): the trap is installed
Start(e) ==
    /\ epc[e] \in StoppedPcs
    /\ Goto(e, "trap")
    /\ exitStatus' = [exitStatus EXCEPT ![e] = -1]
    /\ UNCHANGED << store, clock, shut, budget, cfg, sig, holders, procs, locals, ghosts >>

\* exec 200>"$LOCK_FILE"; if ! flock -n 200
Flock(e) ==
    /\ At(e, "trap")
    /\ IF flock_n(holders, fdInherit)
       THEN /\ holders' = holders \cup {e}
            /\ Goto(e, "gate")
       ELSE /\ Goto(e, "nolock")
            /\ UNCHANGED holders
    /\ UNCHANGED << store, clock, shut, budget, cfg, sig, exitStatus, procs, locals, ghosts >>

\* log "Another instance ..."; exit 1
ExitNoLock(e) ==
    /\ At(e, "nolock")
    /\ Goto(e, "exited")
    /\ exitStatus' = [exitStatus EXCEPT ![e] = 1]
    /\ nsig' = [nsig EXCEPT ![e] = 0]
    /\ UNCHANGED << store, clock, watch, pid, budget, cfg, sig, holders, procs, locals, ghosts >>

\* while ! ping -c 1 google.com; after the loop: local current_index=0
GatePing(e) ==
    /\ At(e, "gate")
    /\ \E ok \in Outcomes(budget) :
          /\ reach' = IF ok THEN reach \cup {e} ELSE reach \ {e}
          /\ Goto(e, gate_next(ok))
          /\ budget' = IF ok THEN budget ELSE Spend(budget)
    /\ current_index' = [current_index EXCEPT ![e] = 0]
    /\ UNCHANGED << store, clock, shut, cfg, sig, exitStatus, holders, procs, url_count, current_url,
                    timeout_raw, timeout, transition_delay, chromium_pid,
                    dirty, clamped, navOk, crashed >>

\* sleep 5
GateSleep(e) ==
    /\ Slept(e, "gate_sleep")
    /\ Wake(e)
    /\ Goto(e, "gate")
    /\ UNCHANGED << store, elapsed, late, slept, shut, budget, cfg, sig, exitStatus, holders, procs, locals, ghosts >>

\* if ! parse_config
ParseConfig(e) ==
    /\ At(e, "parse")
    /\ Goto(e, IF parse_config(cfg) THEN "count" ELSE "parse_sleep")
    /\ UNCHANGED << store, clock, shut, budget, cfg, sig, exitStatus, holders, procs, locals, ghosts >>

\* sleep 10; continue
ParseSleep(e) ==
    /\ Slept(e, "parse_sleep")
    /\ Wake(e)
    /\ Goto(e, "parse")
    /\ UNCHANGED << store, elapsed, late, slept, shut, budget, cfg, sig, exitStatus, holders, procs, locals, ghosts >>

\* local url_count=$(get_url_count); if [[ $url_count -eq 0 ]] ... continue;
\* if [[ $current_index -ge $url_count ]]; then current_index=0
GetUrlCount(e) ==
    /\ At(e, "count")
    /\ url_count' = [url_count EXCEPT ![e] = get_url_count(cfg)]
    /\ dirty' = dirty \ {e}
    /\ IF get_url_count(cfg) = 0
       THEN /\ Goto(e, "empty_sleep")
            /\ UNCHANGED << store, current_index, clamped >>
       ELSE /\ current_index' = [current_index EXCEPT ![e] = clamp_index(@, get_url_count(cfg))]
            /\ clamped' = [clamped EXCEPT ![e] =
                              IF current_index[e] > get_url_count(cfg) THEN "shrink"
                              ELSE IF current_index[e] = get_url_count(cfg) THEN "wrap"
                              ELSE "no"]
            /\ Goto(e, "get_url")
    /\ UNCHANGED << store, clock, shut, budget, cfg, sig, exitStatus, holders, procs, current_url,
                    timeout_raw, timeout, transition_delay, chromium_pid,
                    reach, navOk, crashed >>

\* faulty variant of EmptySleep: the rotation starts over after the wait
EmptySleep_restart(e) ==
    /\ Slept(e, "empty_sleep")
    /\ Wake(e)
    /\ Goto(e, "parse")
    /\ current_index' = [current_index EXCEPT ![e] = 0]
    /\ UNCHANGED << store, elapsed, late, slept, shut, budget, cfg, sig, exitStatus, holders, procs,
                    url_count, current_url, timeout_raw, timeout, transition_delay,
                    chromium_pid, ghosts >>

\* sleep 30; continue
EmptySleep(e) ==
    /\ Slept(e, "empty_sleep")
    /\ Wake(e)
    /\ Goto(e, "parse")
    /\ UNCHANGED << store, elapsed, late, slept, shut, budget, cfg, sig, exitStatus, holders, procs, locals, ghosts >>

\* local current_url=$(get_url "$current_index")
GetUrl(e) ==
    /\ At(e, "get_url")
    /\ current_url' = [current_url EXCEPT ![e] = get_url(cfg, current_index[e])]
    /\ Goto(e, "get_timeout")
    /\ UNCHANGED << store, clock, shut, budget, cfg, sig, exitStatus, holders, procs, current_index, url_count,
                    timeout_raw, timeout, transition_delay, chromium_pid, ghosts >>

\* get_timeout: local timeout=$(jq -r ".urls[$index].timeout" ...)
GetTimeoutItem(e) ==
    /\ At(e, "get_timeout")
    /\ timeout_raw' = [timeout_raw EXCEPT ![e] = jq_item_timeout(cfg, current_index[e])]
    /\ Goto(e, "get_global")
    /\ UNCHANGED << store, clock, shut, budget, cfg, sig, exitStatus, holders, procs, current_index, url_count,
                    current_url, timeout, transition_delay, chromium_pid, ghosts >>

\* get_timeout: local global_timeout=$(jq -r ".globalTimeout" ...) and the echo
GetTimeoutGlobal(e) ==
    /\ At(e, "get_global")
    /\ timeout' = [timeout EXCEPT ![e] = resolve_timeout(timeout_raw[e], jq_global_timeout(cfg))]
    /\ timeout_raw' = [timeout_raw EXCEPT ![e] = Empty]
    /\ Goto(e, "get_delay")
    /\ UNCHANGED << store, clock, shut, budget, cfg, sig, exitStatus, holders, procs, current_index, url_count,
                    current_url, transition_delay, chromium_pid, ghosts >>

\* local display_name=$(get_display_name ...); local transition_delay=$(get_transition_delay)
GetDelay(e) ==
    /\ At(e, "get_delay")
    /\ transition_delay' = [transition_delay EXCEPT ![e] = get_transition_delay(cfg)]
    /\ Goto(e, "check_url")
    /\ UNCHANGED << store, clock, shut, budget, cfg, sig, exitStatus, holders, procs, current_index, url_count,
                    current_url, timeout_raw, timeout, chromium_pid, ghosts >>

\* the locals of main that the next tick assigns before it reads them
ClearTick(e) ==
    /\ current_url' = [current_url EXCEPT ![e] = Empty]
    /\ timeout' = [timeout EXCEPT ![e] = Empty]
    /\ transition_delay' = [transition_delay EXCEPT ![e] = Empty]

\* if [[ -z "$current_url" ]]; then current_index=$((current_index + 1)); continue
CheckUrl(e) ==
    /\ At(e, "check_url")
    /\ IF current_url[e] = Empty
       THEN /\ current_index' = [current_index EXCEPT ![e] = next_index(@)]
            /\ ClearTick(e)
            /\ clamped' = [clamped EXCEPT ![e] = "no"]
            /\ Goto(e, "parse")
       ELSE /\ Goto(e, "nav")
            /\ UNCHANGED << store, current_index, current_url, timeout, transition_delay,
                            clamped >>
    /\ UNCHANGED << store, clock, shut, budget, cfg, sig, exitStatus, holders, procs, url_count, timeout_raw,
                    chromium_pid, dirty, reach, navOk, crashed >>

\* faulty variant of Navigate: is_chromium_running leaves a stale pid file
Navigate_passive(e) ==
    /\ At(e, "nav")
    /\ IF is_chromium_running(pidfile, alive)
       THEN /\ Goto(e, "inplace")
            /\ UNCHANGED pidfile
       ELSE /\ Goto(e, "start_pkill")
            /\ UNCHANGED pidfile
    /\ UNCHANGED << store, clock, shut, budget, cfg, sig, exitStatus, holders, alive, fdInherit, locals, ghosts >>

\* navigate_to_url: if is_chromium_running (which removes a stale pid file)
Navigate(e) ==
    /\ At(e, "nav")
    /\ IF is_chromium_running(pidfile, alive)
       THEN /\ Goto(e, "inplace")
            /\ UNCHANGED pidfile
       ELSE /\ Goto(e, "start_pkill")
            /\ pidfile' = 0
    /\ UNCHANGED << store, clock, shut, budget, cfg, sig, exitStatus, holders, alive, fdInherit, locals, ghosts >>

\* wmctrl -a; wtype: best effort, the typed url arrives only in a live browser
InPlace(e) ==
    /\ At(e, "inplace")
    /\ \E ok \in (IF pidfile \in alive THEN Outcomes(budget) ELSE {FALSE}) :
          /\ navOk' = IF ok THEN "ok" ELSE "failed"
          /\ budget' = IF ok \/ pidfile \notin alive THEN budget ELSE Spend(budget)
    /\ current_url' = [current_url EXCEPT ![e] = Empty]
    /\ crashed' = FALSE
    /\ Goto(e, "dwell")
    /\ UNCHANGED << store, clock, shut, cfg, sig, exitStatus, holders, procs, current_index, url_count,
                    timeout_raw, timeout, transition_delay, chromium_pid,
                    dirty, reach, clamped >>

\* a SIGTERM is sent to the processes of S: each of them exits or is still there
Sigterm(S) ==
    \E K \in SUBSET (S \cap alive) :
        /\ alive' = alive \ K
        /\ fdInherit' = fdInherit \ K

\* start_chromium: pkill -f "chromium-browser"; sleep 2
StartPkill(e) ==
    /\ At(e, "start_pkill")
    /\ Sigterm(alive)
    /\ Goto(e, "start_launch")
    /\ UNCHANGED << store, clock, shut, budget, cfg, sig, exitStatus, holders, pidfile, locals, ghosts >>

\* start_chromium: chromium-browser --kiosk ... "$url" &; local chromium_pid=$!
\* the child inherits fd 200; a failed launch leaves no process behind
StartLaunch(e) ==
    /\ At(e, "start_launch")
    /\ \E p \in Pids \ alive, ok \in Outcomes(budget) :
          /\ chromium_pid' = [chromium_pid EXCEPT ![e] = p]
          /\ alive' = IF ok THEN alive \cup {p} ELSE alive
          /\ fdInherit' = IF ok /\ e \in holders THEN fdInherit \cup {p} ELSE fdInherit
          /\ budget' = IF ok THEN budget ELSE Spend(budget)
    /\ current_url' = [current_url EXCEPT ![e] = Empty]
    /\ crashed' = FALSE
    /\ Goto(e, "start_record")
    /\ UNCHANGED << store, clock, shut, cfg, sig, exitStatus, holders, pidfile, current_index, url_count,
                    timeout_raw, timeout, transition_delay, dirty, reach, clamped, navOk >>

\* start_chromium: echo "$chromium_pid" > "$CHROMIUM_PID_FILE"
StartRecord(e) ==
    /\ At(e, "start_record")
    /\ pidfile' = chromium_pid[e]
    /\ chromium_pid' = [chromium_pid EXCEPT ![e] = 0]
    /\ Goto(e, "dwell")
    /\ UNCHANGED << store, clock, shut, budget, cfg, sig, exitStatus, holders, alive, fdInherit, current_index,
                    url_count, current_url, timeout_raw, timeout, transition_delay, ghosts >>

\* wait_with_progress: timeout_sec and the length of the next sleep
timeout_sec(ms) == ms \div MsPerSec
more_progress(ms, done) ==
    timeout_sec(ms) > progress_interval /\ timeout_sec(ms) - done > progress_interval
\* faulty variant of next_sleep: the last sleep is a whole interval too
next_sleep_chunk(ms, done) ==
    IF timeout_sec(ms) > progress_interval THEN progress_interval ELSE timeout_sec(ms)

next_sleep(ms, done) ==
    IF timeout_sec(ms) > progress_interval
    THEN IF timeout_sec(ms) - done <= progress_interval
         THEN timeout_sec(ms) - done
         ELSE progress_interval
    ELSE timeout_sec(ms)

\* wait_with_progress "$timeout" returns; then if [[ $transition_delay -gt 0 ]]
Dwell(e) ==
    /\ Slept(e, "dwell")
    /\ timeout[e] # Malformed
    /\ sleep_left[e] = NoSleep \/ ~more_progress(timeout[e], elapsed[e])
    /\ Wake(e)
    /\ elapsed' = [elapsed EXCEPT ![e] = 0]
    /\ slept' = [slept EXCEPT ![e] = 0]
    /\ Goto(e, IF transition_delay[e] > 0 THEN "transition" ELSE "advance")
    /\ timeout' = [timeout EXCEPT ![e] = Empty]
    /\ transition_delay' = [transition_delay EXCEPT ![e] = IF @ > 0 THEN @ ELSE Empty]
    /\ navOk' = "none"
    /\ UNCHANGED << store, late, shut, budget, cfg, sig, exitStatus, holders, procs, current_index, url_count,
                    current_url, timeout_raw, chromium_pid, dirty, reach, clamped, crashed >>

\* wait_with_progress: local timeout_sec=$((timeout_ms / 1000)) with a value
\* that is no integer.  The error of the arithmetic expansion ends the
\* command the shell is running at top level, the call of main: the script
\* goes on after it, that is, the process ends with status 1, without cleanup.
DwellAbort(e) ==
    /\ At(e, "dwell")
    /\ timeout[e] = Malformed
    /\ Goto(e, "exited")
    /\ exitStatus' = [exitStatus EXCEPT ![e] = 1]
    /\ holders' = holders \ {e}
    /\ current_index' = [current_index EXCEPT ![e] = 0]
    /\ url_count' = [url_count EXCEPT ![e] = 0]
    /\ ClearTick(e)
    /\ reach' = reach \ {e}
    /\ dirty' = dirty \ {e}
    /\ navOk' = "none"
    /\ clamped' = [clamped EXCEPT ![e] = "no"]
    /\ crashed' = FALSE
    /\ UNCHANGED << store, clock, shut, budget, cfg, sig, procs, timeout_raw, chromium_pid >>

\* local delay_sec=$((transition_delay / 1000)); sleep "$delay_sec"
Transition(e) ==
    /\ Slept(e, "transition")
    /\ Wake(e)
    /\ transition_delay' = [transition_delay EXCEPT ![e] = Empty]
    /\ Goto(e, "advance")
    /\ UNCHANGED << store, elapsed, late, slept, shut, budget, cfg, sig, exitStatus, holders, procs,
                    current_index, url_count, current_url, timeout_raw, timeout,
                    chromium_pid, ghosts >>

\* current_index=$((current_index + 1))
Advance(e) ==
    /\ At(e, "advance")
    /\ current_index' = [current_index EXCEPT ![e] = next_index(@)]
    /\ ClearTick(e)
    /\ clamped' = [clamped EXCEPT ![e] = "no"]
    /\ Goto(e, "parse")
    /\ UNCHANGED << store, clock, shut, budget, cfg, sig, exitStatus, holders, procs, url_count, timeout_raw,
                    chromium_pid, dirty, reach, navOk, crashed >>

(***************************************************************************)
(* trap cleanup SIGTERM SIGINT                                             *)
(***************************************************************************)
\* the pending trap runs before the next command, also inside cleanup itself
Trap(e) ==
    /\ e \in sig
    /\ epc[e] \notin StoppedPcs
    /\ sleep_left[e] = NoSleep
    /\ elapsed' = [elapsed EXCEPT ![e] = 0]
    /\ late' = [late EXCEPT ![e] = 0]
    /\ slept' = [slept EXCEPT ![e] = 0]
    /\ sig' = sig \ {e}
    /\ Goto(e, "cleanup")
    /\ reach' = reach \ {e}
    /\ dirty' = dirty \ {e}
    /\ clamped' = [clamped EXCEPT ![e] = "no"]
    /\ navOk' = IF epc[e] = "dwell" THEN "none" ELSE navOk
    /\ UNCHANGED << store, sleep_left, shut, budget, cfg, exitStatus, holders, procs, locals, crashed >>

\* cleanup: if [[ -f pid file ]]: kill the pid if ps -p finds it; rm -f the file
CleanupKill(e) ==
    /\ At(e, "cleanup")
    /\ IF pidfile # 0
       THEN /\ Sigterm({pidfile})
            /\ pidfile' = 0
       ELSE UNCHANGED procs
    /\ pid' = [pid EXCEPT ![e] = IF watch THEN pidfile ELSE 0]
    /\ Goto(e, "cleanup_pkill")
    /\ UNCHANGED << store, clock, watch, nsig, budget, cfg, sig, exitStatus, holders, locals, ghosts >>

\* cleanup: pkill -f "chromium-browser"
CleanupPkill(e) ==
    /\ At(e, "cleanup_pkill")
    /\ Sigterm(alive)
    /\ Goto(e, "cleanup_exit")
    /\ UNCHANGED << store, clock, shut, budget, cfg, sig, exitStatus, holders, pidfile, locals, ghosts >>

\* cleanup: exit 0; the process ends and its fd 200 is closed
CleanupExit(e) ==
    /\ At(e, "cleanup_exit")
    /\ Goto(e, "exited")
    /\ exitStatus' = [exitStatus EXCEPT ![e] = 0]
    /\ holders' = holders \ {e}
    /\ current_index' = [current_index EXCEPT ![e] = 0]
    /\ url_count' = [url_count EXCEPT ![e] = 0]
    /\ ClearTick(e)
    /\ timeout_raw' = [timeout_raw EXCEPT ![e] = Empty]
    /\ chromium_pid' = [chromium_pid EXCEPT ![e] = 0]
    /\ crashed' = (crashed /\ e \notin holders)
    /\ pid' = [pid EXCEPT ![e] = 0]
    /\ nsig' = [nsig EXCEPT ![e] = 0]
    /\ UNCHANGED << store, clock, watch, budget, cfg, sig, procs, dirty, reach, clamped, navOk >>

(***************************************************************************)
(* Environment                                                             *)
(***************************************************************************)
\* SIGTERM or SIGINT is sent to a running engine
Signal(e) ==
    /\ epc[e] \notin StoppedPcs
    /\ e \notin sig
    /\ sig' = sig \cup {e}
    /\ nsig' = [nsig EXCEPT ![e] = IF watch /\ @ < SigCap THEN @ + 1 ELSE @]
    /\ UNCHANGED << store, clock, watch, pid, budget, cfg, epc, exitStatus, holders, procs, locals, ghosts >>

\* a browser process dies (crash, external kill, late exit after a SIGTERM)
BrowserCrash(p) ==
    /\ p \in alive
    /\ budget # 0
    /\ budget' = Spend(budget)
    /\ alive' = alive \ {p}
    /\ fdInherit' = fdInherit \ {p}
    /\ crashed' = (crashed \/ (p = pidfile /\ \E e \in Engines : epc[e] = "dwell"))
    /\ UNCHANGED << store, clock, shut, cfg, epc, sig, exitStatus, holders, pidfile, locals,
                    dirty, reach, clamped, navOk >>

\* a browser is started outside the engine (desktop session, by hand): it is
\* a chromium-browser process that pkill -f matches, without the fd 200
StrayBrowser(p) ==
    /\ p \in Pids \ alive
    /\ p # pidfile
    /\ alive' = alive \cup {p}
    /\ UNCHANGED << store, clock, shut, budget, cfg, epc, sig, exitStatus, holders, pidfile,
                    fdInherit, locals, ghosts >>

ReadPcs == {"get_url", "get_timeout", "get_global", "get_delay", "check_url"}

\* the dashboard (or an editor) rewrites CONFIG_FILE
WriteConfig(f) ==
    /\ f # cfg
    /\ budget # 0
    /\ budget' = Spend(budget)
    /\ cfg' = f
    /\ dirty' = dirty \cup {e \in Engines : epc[e] \in ReadPcs}
    /\ UNCHANGED << store, clock, shut, epc, sig, exitStatus, holders, procs, locals,
                    reach, clamped, navOk, crashed >>

(***************************************************************************)
(* The sleeps followed through time (seconds)                              *)
(***************************************************************************)
SleepPcs == {"gate_sleep", "parse_sleep", "empty_sleep", "dwell", "transition"}

\* the length of the sleep an engine is about to start
sleep_sec(e) ==
    CASE epc[e] = "gate_sleep"  -> GateSleepSec
      [] epc[e] = "parse_sleep" -> ParseSleepSec
      [] epc[e] = "empty_sleep" -> EmptySleepSec
      [] epc[e] = "dwell"       -> next_sleep(timeout[e], elapsed[e])
      [] epc[e] = "transition"  -> transition_delay[e] \div MsPerSec

\* the engine starts a sleep and waits for it in the foreground
Sleep(e) ==
    /\ epc[e] \in SleepPcs
    /\ epc[e] = "dwell" => timeout[e] # Malformed
    /\ e \notin sig
    /\ sleep_left[e] = NoSleep
    /\ sleep_left' = [sleep_left EXCEPT ![e] = sleep_sec(e)]
    /\ UNCHANGED << store, elapsed, late, slept, shut, budget, cfg, epc, sig, exitStatus, holders,
                    procs, locals, ghosts >>

\* a second of the sleep passes; bash runs no trap while it waits for the sleep
Tick(e) ==
    /\ sleep_left[e] # NoSleep
    /\ sleep_left[e] > 0
    /\ sleep_left' = [sleep_left EXCEPT ![e] = @ - 1]
    /\ late' = [late EXCEPT ![e] = IF e \in sig /\ @ < LateCap THEN @ + 1 ELSE @]
    /\ slept' = [slept EXCEPT ![e] = IF epc[e] = "dwell" THEN @ + 1 ELSE @]
    /\ UNCHANGED << store, elapsed, shut, budget, cfg, epc, sig, exitStatus, holders,
                    procs, locals, ghosts >>

\* wait_with_progress: sleep $progress_interval has returned;
\* elapsed=$((elapsed + progress_interval)); log "Still displaying ..."
DwellProgress(e) ==
    /\ epc[e] = "dwell"
    /\ sleep_left[e] = 0
    /\ more_progress(timeout[e], elapsed[e])
    /\ Wake(e)
    /\ elapsed' = [elapsed EXCEPT ![e] = @ + progress_interval]
    /\ UNCHANGED << store, late, slept, shut, budget, cfg, epc, sig, exitStatus, holders,
                    procs, locals, ghosts >>

\* the signal is sent to the whole process group or control group (Ctrl-C,
\* systemctl stop): the sleep the engine waits for ends at once and the
\* browsers get the signal too
SignalGroup(e) ==
    /\ epc[e] \notin StoppedPcs
    /\ e \notin sig
    /\ sig' = sig \cup {e}
    /\ nsig' = [nsig EXCEPT ![e] = IF watch /\ @ < SigCap THEN @ + 1 ELSE @]
    /\ sleep_left' = [sleep_left EXCEPT ![e] = IF @ = NoSleep THEN NoSleep ELSE 0]
    /\ Sigterm(alive)
    /\ UNCHANGED << store, elapsed, late, slept, watch, pid, budget, cfg, epc, exitStatus, holders, pidfile,
                    locals, ghosts >>

EngineStep(e) ==
    \/ Flock(e)
    \/ ExitNoLock(e)
    \/ GatePing(e)
    \/ GateSleep(e)
    \/ ParseConfig(e)
    \/ ParseSleep(e)
    \/ GetUrlCount(e)
    \/ EmptySleep(e)
    \/ GetUrl(e)
    \/ GetTimeoutItem(e)
    \/ GetTimeoutGlobal(e)
    \/ GetDelay(e)
    \/ CheckUrl(e)
    \/ Navigate(e)
    \/ InPlace(e)
    \/ StartPkill(e)
    \/ StartLaunch(e)
    \/ StartRecord(e)
    \/ Dwell(e)
    \/ DwellAbort(e)
    \/ Transition(e)
    \/ Advance(e)
    \/ Trap(e)
    \/ CleanupKill(e)
    \/ CleanupPkill(e)
    \/ CleanupExit(e)
    \/ Signal(e)

(***************************************************************************)
(* Spec: the kiosk service.  systemd runs one switcher process and starts  *)
(* it again after every exit (Restart=always), while the dashboard         *)
(* rewrites the configuration file and browsers die at any time.           *)
(***************************************************************************)
Service == CHOOSE e \in Engines : \A o \in Engines : e <= o

Next ==
    \/ Start(Service)
    \/ \E e \in Engines : EngineStep(e)
    \/ \E p \in Pids : BrowserCrash(p)
    \/ \E f \in Files : WriteConfig(f)

Spec == Init /\ [][Next]_vars

(***************************************************************************)
(* SpecLock: switcher processes are started by hand next to the service,   *)
(* in any order and at any time, over a configuration file that is left    *)
(* alone.                                                                  *)
(***************************************************************************)
LockFiles == { f \in Files : ~IsConfig(f) \/ (f.transitionDelay = Null /\ Len(f.urls) <= 1) }

InitLock == Init /\ cfg \in LockFiles

\* the processes are interchangeable: a new one takes the first free place
StartNext(e) ==
    /\ \A o \in Engines : o < e => epc[o] \notin StoppedPcs
    /\ Start(e)

NextLock ==
    \/ \E e \in Engines : StartNext(e)
    \/ \E e \in Engines : EngineStep(e)
    \/ \E p \in Pids : BrowserCrash(p)

SpecLock == InitLock /\ [][NextLock]_vars

(***************************************************************************)
(* SpecWait: the kiosk service over a configuration file that is left      *)
(* alone, with the sleeps of the engine followed second by second.         *)
(***************************************************************************)
NextWait ==
    \/ Start(Service)
    \/ \E e \in Engines : EngineStep(e)
    \/ \E e \in Engines : Sleep(e)
    \/ \E e \in Engines : Tick(e)
    \/ \E e \in Engines : DwellProgress(e)
    \/ \E e \in Engines : SignalGroup(e)
    \/ \E p \in Pids : BrowserCrash(p)

InitWait == Booted /\ StoreOff /\ watch = TRUE /\ budget = Unlimited

SpecWait == InitWait /\ [][NextWait]_vars

(***************************************************************************)
(* SpecHost: the kiosk service on a host where browsers are also started   *)
(* outside the engine, over a configuration file that is left alone.       *)
(***************************************************************************)
NextHost ==
    \/ Start(Service)
    \/ \E e \in Engines : EngineStep(e)
    \/ \E p \in Pids : BrowserCrash(p)
    \/ \E p \in Pids : StrayBrowser(p)

SpecHost == InitLock /\ [][NextHost]_vars

(***************************************************************************)
(* SpecLive: the kiosk service without termination signals.  The           *)
(* environment injects at most MaxFaults faults (failed polls, failed      *)
(* launches, failed automations, browser deaths, rewrites of the file,     *)
(* also with a bad item); the shell goes on to its next command and every  *)
(* sleep ends.                                                             *)
(***************************************************************************)
LoopStep(e) ==
    \/ Flock(e)
    \/ ExitNoLock(e)
    \/ GatePing(e)
    \/ GateSleep(e)
    \/ ParseConfig(e)
    \/ ParseSleep(e)
    \/ GetUrlCount(e)
    \/ EmptySleep(e)
    \/ GetUrl(e)
    \/ GetTimeoutItem(e)
    \/ GetTimeoutGlobal(e)
    \/ GetDelay(e)
    \/ CheckUrl(e)
    \/ Navigate(e)
    \/ InPlace(e)
    \/ StartPkill(e)
    \/ StartLaunch(e)
    \/ StartRecord(e)
    \/ Dwell(e)
    \/ DwellAbort(e)
    \/ Transition(e)
    \/ Advance(e)

InitLive == Booted /\ StoreOff /\ watch = FALSE /\ budget = MaxFaults

NextLive ==
    \/ Start(Service)
    \/ \E e \in Engines : LoopStep(e)
    \/ \E p \in Pids : BrowserCrash(p)
    \/ \E f \in Files \cup BadItemConfigs : WriteConfig(f)

SpecLive ==
    /\ InitLive
    /\ [][NextLive]_vars
    /\ WF_vars(Start(Service))
    /\ WF_vars(\E e \in Engines : LoopStep(e))

(***************************************************************************)
(* SpecDwell: one call of wait_with_progress, for every timeout of whole   *)
(* and half seconds up to MaxDwellSec, followed second by second without   *)
(* signals.  Every sleep ends and the shell goes on to its next command.   *)
(***************************************************************************)
DwellTimeouts == { sec * MsPerSec + r : sec \in 0..MaxDwellSec, r \in {0, MsPerSec \div 2} }

\* the engine has navigated and calls wait_with_progress "$timeout"
InitDwell ==
    /\ cfg = Missing
    /\ dirty = {}
    /\ epc = [e \in Engines |-> IF e = Service THEN "dwell" ELSE "off"]
    /\ sig = {}
    /\ exitStatus = [e \in Engines |-> -1]
    /\ reach = {Service}
    /\ holders = {Service}
    /\ fdInherit = {1}
    /\ alive = {1}
    /\ pidfile = 1
    /\ current_index = [e \in Engines |-> 0]
    /\ url_count = [e \in Engines |-> IF e = Service THEN 1 ELSE 0]
    /\ current_url = [e \in Engines |-> IF e = Service THEN 1 ELSE Empty]
    /\ timeout_raw = [e \in Engines |-> Empty]
    /\ \E t \in DwellTimeouts : timeout = [e \in Engines |-> IF e = Service THEN t ELSE Empty]
    /\ transition_delay = [e \in Engines |-> IF e = Service THEN DefaultDelay ELSE Empty]
    /\ chromium_pid = [e \in Engines |-> 0]
    /\ clamped = [e \in Engines |-> "no"]
    /\ navOk = "none"
    /\ crashed = FALSE
    /\ sleep_left = [e \in Engines |-> NoSleep]
    /\ elapsed = [e \in Engines |-> 0]
    /\ late = [e \in Engines |-> 0]
    /\ slept = [e \in Engines |-> 0]
    /\ pid = [e \in Engines |-> 0]
    /\ nsig = [e \in Engines |-> 0]
    /\ watch = FALSE
    /\ budget = Unlimited
    /\ StoreOff

\* wait_with_progress returns after its last sleep
DwellReturn(e) ==
    /\ sleep_left[e] # NoSleep
    /\ Dwell(e)

NextDwell ==
    \/ \E e \in Engines : Sleep(e)
    \/ \E e \in Engines : Tick(e)
    \/ \E e \in Engines : DwellProgress(e)
    \/ \E e \in Engines : DwellReturn(e)

SpecDwell == InitDwell /\ [][NextDwell]_vars /\ WF_vars(NextDwell)

(***************************************************************************)
(* The dashboard process (node index.js).  Node runs one handler at a      *)
(* time and the file calls are synchronous, so a handler is one step up    *)
(* to its response; only the death of the process cuts it short.           *)
(***************************************************************************)
engine == << cfg, dirty, epc, sig, exitStatus, reach, holders, fdInherit,
             alive, pidfile, current_index, url_count, current_url, timeout_raw,
             timeout, transition_delay, chromium_pid, clamped, navOk, crashed,
             sleep_left, elapsed, late, slept, watch, pid, nsig, budget >>

\* node index.js is started (systemd unit, Restart=always):
\* "Initialize with default config if none exists"
Boot(w) ==
    /\ dpc = "down"
    /\ LET s == IF configFile.kind = "absent"
                THEN saveConfig(configFile, backupFile, defaultConfig, w)
                ELSE [primary |-> configFile, backup |-> backupFile, killed |-> FALSE]
       IN /\ configFile' = s.primary
          /\ backupFile' = s.backup
          /\ dpc' = IF s.killed THEN "down" ELSE "idle"
    /\ wrote' = IF configFile.kind = "absent" THEN w ELSE "none"
    /\ lastGood' = IF configFile.kind = "absent" /\ w = "ok"
                   THEN stringify(defaultConfig) ELSE lastGood
    /\ lastop' = "boot"
    /\ response' = "none"
    /\ UNCHANGED << engine, req, timer, loaded, restored >>

\* GET / and GET /api/config: const config = loadConfig()
Load(w) ==
    /\ dpc = "idle"
    /\ LET l == loadConfig(configFile, backupFile, w)
       IN /\ configFile' = l.primary
          /\ backupFile' = l.backup
          /\ wrote' = l.wrote
          /\ dpc' = IF l.killed THEN "down" ELSE "idle"
          /\ timer' = IF l.killed THEN FALSE ELSE timer
          /\ loaded' = IF l.killed THEN NoValue ELSE l.result
          /\ lastGood' = IF l.wrote = "ok" THEN l.primary ELSE lastGood
          /\ restored' = IF l.killed THEN restored
                         ELSE IF configFile.kind = "absent" /\ backupFile.kind = "json"
                              THEN l.result
                         ELSE IF restored # NoValue /\ l.wrote = "none" THEN restored
                         ELSE NoValue
    /\ lastop' = "load"
    /\ response' = "none"
    /\ req' = NoValue
    /\ UNCHANGED engine

\* app.post('/api/urls') up to saveConfig(config), or to the response that
\* rejects the request
Post(r, w) ==
    /\ dpc = "idle"
    /\ req' = r
    /\ lastop' = IF r = loaded THEN "repost" ELSE "post"
    /\ IF PostAccepts(r)
       THEN LET s == saveConfig(configFile, backupFile, r, w)
            IN /\ configFile' = s.primary
               /\ backupFile' = s.backup
               /\ dpc' = IF s.killed THEN "down" ELSE "respond"
               /\ timer' = IF s.killed THEN FALSE ELSE timer
               /\ wrote' = w
               /\ lastGood' = IF w = "ok" THEN stringify(r) ELSE lastGood
               /\ response' = "none"
               /\ restored' = NoValue
       ELSE /\ response' = "fail"
            /\ wrote' = "none"
            /\ UNCHANGED << configFile, backupFile, dpc, timer, lastGood, restored >>
    /\ loaded' = NoValue
    /\ UNCHANGED engine

\* a client posts back the configuration that GET /api/config gave it
Repost(w) ==
    /\ loaded # NoValue
    /\ Post(loaded, w)

\* res.json({ success: true })
Respond ==
    /\ dpc = "respond"
    /\ response' = "ok"
    /\ dpc' = "arm"
    /\ UNCHANGED << engine, configFile, backupFile, req, timer, loaded, wrote, lastop,
                    lastGood, restored >>

\* setTimeout(() => { exec('sudo systemctl restart infopoint', ...) }, 3000)
Arm ==
    /\ dpc = "arm"
    /\ timer' = TRUE
    /\ dpc' = "idle"
    /\ UNCHANGED << engine, configFile, backupFile, req, response, loaded, wrote, lastop,
                    lastGood, restored >>

\* the timer fires: the restart of the engine is requested
Fire ==
    /\ dpc = "idle"
    /\ timer
    /\ timer' = FALSE
    /\ UNCHANGED << engine, configFile, backupFile, dpc, req, response, loaded, wrote,
                    lastop, lastGood, restored >>

\* the process dies; its timers die with it
Crash ==
    /\ dpc # "down"
    /\ dpc' = "down"
    /\ timer' = FALSE
    /\ lastop' = "crash"
    /\ wrote' = "none"
    /\ response' = "none"
    /\ req' = NoValue
    /\ loaded' = NoValue
    /\ UNCHANGED << engine, configFile, backupFile, lastGood, restored >>

\* the primary file is lost (removed by hand, a new card without the file)
RemovePrimary ==
    /\ dpc \in {"down", "idle"}
    /\ configFile.kind # "absent"
    /\ configFile' = Absent
    /\ lastop' = "env"
    /\ wrote' = "none"
    /\ UNCHANGED << engine, backupFile, dpc, req, response, timer, loaded, lastGood,
                    restored >>

(***************************************************************************)
(* SpecStore: the dashboard alone, over any pair of files it can find,     *)
(* with writes that fail and with deaths of the process.                   *)
(***************************************************************************)
InitStore ==
    /\ Booted
    /\ cfg = Missing
    /\ watch = FALSE
    /\ budget = Unlimited
    /\ configFile \in FoundFiles
    /\ backupFile \in FoundBackups
    /\ StoreIdle

NextStore ==
    \/ \E w \in SaveOutcomes : Boot(w)
    \/ \E w \in SaveOutcomes : Load(w)
    \/ \E r \in Requests, w \in SaveOutcomes : Post(r, w)
    \/ \E w \in SaveOutcomes : Repost(w)
    \/ Respond
    \/ Arm
    \/ Fire
    \/ Crash
    \/ RemovePrimary

SpecStore == InitStore /\ [][NextStore]_vars

(***************************************************************************)
(* Properties                                                              *)
(***************************************************************************)
TickPcs == {"get_url", "get_timeout", "get_global", "get_delay", "check_url",
            "nav", "inplace", "start_pkill", "start_launch", "start_record",
            "dwell", "transition", "advance"}
UrlReadPcs == {"get_timeout", "get_global", "get_delay", "check_url"}

\* C1: run-lock mutual exclusion.  In every reachable state at most one
\* engine holds the run-lock, every engine inside the network gate or the
\* rotation loop holds it, and so at most one engine is inside them.
C1_RunLockMutex ==
    /\ Cardinality(holders) <= 1
    /\ \A e \in Engines : epc[e] \in MainPcs => e \in holders
    /\ Cardinality({e \in Engines : epc[e] \in MainPcs}) <= 1

\* one engine cycles while another one has just been refused the lock
C1_Witness ==
    \E e, o \in Engines :
        /\ e # o
        /\ epc[e] \in CyclingPcs
        /\ epc[o] = "nolock"

\* C2: an engine started while another one holds the lock changes nothing
\* of the first engine's running state: in no step of its life, also after
\* a termination signal, does it start or kill a browser or change the
\* recorded pid.
C2_SecondEngineInert ==
    [][\A e \in Engines :
          (holders # {} /\ e \notin holders /\ e \notin holders' /\ epc'[e] # epc[e])
          => (alive' = alive /\ pidfile' = pidfile)]_vars

\* C3: in Cycling, whenever the item list on file is non-empty and is the
\* list the engine has loaded, 0 <= current_index < len(items), also after
\* the advance step.
C3_IndexInRange ==
    \A e \in Engines :
        (/\ epc[e] \in CyclingPcs
         /\ IsConfig(cfg) /\ Len(cfg.urls) > 0
         /\ url_count[e] = Len(cfg.urls) /\ e \notin dirty)
        => (0 <= current_index[e] /\ current_index[e] < Len(cfg.urls))

\* C4: the advance step of a tick that displayed item i of n items sets the
\* index to (i + 1) mod n.
C4_AdvanceModulo ==
    [][\A e \in Engines :
          (epc[e] = "advance" /\ epc'[e] = "parse")
          => current_index'[e] = (current_index[e] + 1) % url_count[e]]_vars

\* C5: index clamping.  From the clamp to the end of the tick the index is
\* inside the list loaded by the tick; if the index left by the previous
\* ticks was no longer inside that list, the tick works on index 0, and the
\* url it reads from the unchanged file is the url of item 0, never "null".
C5_IndexClamping ==
    \A e \in Engines :
        epc[e] \in TickPcs =>
            /\ 0 <= current_index[e] /\ current_index[e] < url_count[e]
            /\ (clamped[e] # "no" => current_index[e] = 0)
            /\ (epc[e] \in UrlReadPcs /\ e \notin dirty)
               => /\ current_index[e] + 1 \in DOMAIN cfg.urls
                  /\ current_url[e] = cfg.urls[current_index[e] + 1].url

\* the list has shrunk below the index and the tick shows item 0 of it
C5_Witness ==
    \E e \in Engines :
        /\ clamped[e] = "shrink"
        /\ epc[e] = "dwell"
        /\ current_index[e] = 0

\* C6: dwell resolution.  The dwell of a tick is the item's timeout if it is
\* present and at least 1000, else globalTimeout, else 30000; an item
\* timeout below 1000 is not used.
ValidTimeout(t) == t # Null /\ t # Empty /\ t >= MinTimeout
ClaimedDwell(f, index) ==
    IF ValidTimeout(f.urls[index + 1].timeout) THEN f.urls[index + 1].timeout
    ELSE IF f.globalTimeout # Null THEN f.globalTimeout
    ELSE DefaultTimeout
C6_DwellResolution ==
    \A e \in Engines :
        (epc[e] = "get_delay" /\ e \notin dirty /\ current_index[e] + 1 \in DOMAIN cfg.urls)
        => timeout[e] = ClaimedDwell(cfg, current_index[e])

\* C7: network gate.  An engine is in the rotation loop only after a
\* successful poll and a browser is launched only by such an engine; it
\* leaves the gate only into the loop on a successful poll, or through the
\* trap of a termination signal; a successful poll leads into the loop.
C7_NetworkGate ==
    /\ [](\A e \in Engines : epc[e] \in CyclingPcs => e \in reach)
    /\ [][\A e \in Engines :
             /\ (epc[e] \in GatePcs /\ epc'[e] \notin GatePcs)
                => \/ (epc'[e] = "parse" /\ e \in reach')
                   \/ (e \in sig /\ epc'[e] = "cleanup")
             /\ (e \notin reach /\ e \in reach') => epc'[e] = "parse"
             /\ (epc[e] \in GatePcs /\ epc'[e] # "parse")
                => (alive' \subseteq alive /\ navOk' = navOk)]_vars

\* the poll has failed and the engine waits in the gate for the next poll
C7_Witness ==
    \E e \in Engines : epc[e] = "gate_sleep" /\ e \notin reach /\ e \in holders

\* C8: goTo.  With a live recorded browser the navigation is done in place:
\* no process is killed or launched and the pid file is left alone; with no
\* live recorded browser a fresh start follows.  The automation, failed or
\* not, leads to the dwell with the index, the processes and the pid file
\* unchanged.
C8_GoTo ==
    [][\A e \in Engines :
          /\ (epc[e] = "nav" /\ e \notin sig /\ epc'[e] # "nav")
             => IF pidfile # 0 /\ pidfile \in alive
                THEN epc'[e] = "inplace" /\ alive' = alive /\ pidfile' = pidfile
                ELSE epc'[e] = "start_pkill"
          /\ (epc[e] = "inplace" /\ e \notin sig /\ epc'[e] # "inplace")
             => /\ epc'[e] = "dwell"
                /\ navOk' \in {"ok", "failed"}
                /\ alive' = alive /\ pidfile' = pidfile
                /\ current_index' = current_index
                /\ timeout' = timeout /\ transition_delay' = transition_delay]_vars

\* the automation has failed on a live browser and the engine dwells
C8_Witness ==
    \E e \in Engines :
        epc[e] = "dwell" /\ navOk = "failed" /\ pidfile \in alive

\* C9: crash recovery.  After the recorded browser died during a dwell the
\* engine does no in-place navigation before it has launched a browser
\* again, and until then its index only moves on by one or wraps in the
\* clamp: the crash does not reset it.
C9_CrashRecovery ==
    /\ [](crashed => \A e \in Engines : epc[e] # "inplace")
    /\ [][(crashed \/ crashed') =>
            \A e \in Engines :
               epc'[e] \in MainPcs =>
                  \/ current_index'[e] = current_index[e]
                  \/ /\ epc[e] \in {"advance", "check_url"}
                     /\ current_index'[e] = current_index[e] + 1
                  \/ /\ epc[e] = "count"
                     /\ current_index[e] >= url_count'[e]
                     /\ current_index'[e] = 0]_vars

\* after the crash the engine is in a fresh start, at an index other than 0
C9_Witness ==
    \E e \in Engines :
        crashed /\ epc[e] = "start_launch" /\ current_index[e] = 1

\* C10: the lock-holding engine that got a termination signal ends with
\* status 0, the pid file removed, the run-lock free and no browser process
\* left running.
C10_SignalShutdown ==
    [][\A e \in Engines :
          (e \in holders /\ epc[e] = "cleanup_exit" /\ epc'[e] = "exited")
          => /\ exitStatus'[e] = 0
             /\ pidfile' = 0
             /\ alive' = {}
             /\ flock_n(holders', fdInherit')]_vars

\* C11: shutdown latency.  A pending termination signal cancels the sleep
\* the engine is in (network poll wait, dwell, transition delay): the engine
\* never sleeps on for more than a short interval with a signal pending.
C11_ShutdownLatency ==
    \A e \in Engines :
        epc[e] \in {"gate_sleep", "dwell", "transition"} => late[e] <= ShortInterval

\* C12: the engine leaves the network gate and the rotation loop only into
\* the shutdown handler, and enters the handler only with a termination
\* signal pending; the lock-holding process ends only at the exit of the
\* handler and keeps the lock until then.  No file content, browser crash,
\* failed launch or failed automation ends it.
C12_OnlySignalEndsLoop ==
    [][\A e \in Engines :
          /\ (epc[e] \in MainPcs /\ epc'[e] \notin MainPcs)
             => (e \in sig /\ epc'[e] = "cleanup")
          /\ (epc[e] \notin CleanupPcs /\ epc'[e] \in CleanupPcs) => e \in sig
          /\ (e \in holders /\ epc[e] # "exited" /\ epc'[e] = "exited")
             => epc[e] = "cleanup_exit"
          /\ (e \in holders /\ e \notin holders') => epc'[e] = "exited"]_vars

\* C13: rotation liveness.  Without a termination signal and after the
\* last fault (bad item, browser death, failed launch, unreadable or bad
\* file that is corrected later), every valid item of the list on file is
\* displayed again and again: the engine dwells on it with a live browser
\* that was launched on it or took the navigation.
ValidItem(f, i) ==
    /\ IsConfig(f)
    /\ i \in DOMAIN f.urls
    /\ f.urls[i].url # Empty
    /\ f.urls[i].timeout # Malformed
Displayed(i) ==
    \E e \in Engines :
        /\ epc[e] = "dwell"
        /\ current_index[e] = i - 1
        /\ e \notin dirty
        /\ pidfile \in alive
        /\ navOk # "failed"
C13_RotationLiveness ==
    \A i \in 1..MaxItems : []<>(~ValidItem(cfg, i) \/ Displayed(i))

\* C14: the configuration is re-read on every tick.  When a tick has done
\* its reads, the count, the url, the dwell and the transition delay it works
\* with are those of the file as it is now (and was during the reads),
\* whatever the file held during the ticks before, in the same process.
FileDwell(f, index) ==
    LET t == f.urls[index + 1].timeout
    IN IF t # Null THEN t
       ELSE IF f.globalTimeout # Null THEN f.globalTimeout
       ELSE DefaultTimeout
FileDelay(f) == IF f.transitionDelay # Null THEN f.transitionDelay ELSE DefaultDelay
C14_RereadEveryTick ==
    \A e \in Engines :
        (epc[e] = "check_url" /\ e \notin dirty)
        => /\ IsConfig(cfg)
           /\ url_count[e] = Len(cfg.urls)
           /\ current_index[e] + 1 \in DOMAIN cfg.urls
           /\ current_url[e] = cfg.urls[current_index[e] + 1].url
           /\ timeout[e] = FileDwell(cfg, current_index[e])
           /\ transition_delay[e] = FileDelay(cfg)

\* the list was cut short during the tick before and this tick has read the
\* new file
C14_Witness ==
    \E e \in Engines :
        /\ epc[e] = "check_url"
        /\ e \notin dirty
        /\ clamped[e] = "shrink"
        /\ timeout[e] = ItemTimeout

\* C15: a failed read of the file (missing, not valid JSON) by an engine that
\* has loaded a list before is no change: the tick is not skipped, the engine
\* goes on into the tick with the configuration it loaded before, and the
\* index is left alone.
C15_FailedReadNoChange ==
    [][\A e \in Engines :
          (/\ epc[e] = "parse" /\ url_count[e] > 0
           /\ ~IsConfig(cfg) /\ epc'[e] \notin {"parse", "cleanup"})
          => (epc'[e] \in TickPcs /\ current_index'[e] = current_index[e])]_vars

\* C16: empty list.  A tick that loads an empty list goes into the idle wait
\* and from there back to the start of a tick; a tick that loads items does
\* not.  On the way the index is unchanged, no navigation is issued and no
\* browser is started or killed.
C16_EmptyListIdle ==
    [][\A e \in Engines :
          /\ (epc[e] = "count" /\ epc'[e] \notin {"count", "cleanup"})
             => (epc'[e] = "empty_sleep") = (url_count'[e] = 0)
          /\ (/\ epc[e] \in {"count", "empty_sleep"}
              /\ epc'[e] \in {"empty_sleep", "parse"}
              /\ epc'[e] # epc[e])
             => /\ epc[e] = "empty_sleep" => epc'[e] = "parse"
                /\ current_index'[e] = current_index[e]
                /\ alive' = alive /\ pidfile' = pidfile /\ navOk' = navOk]_vars

\* the list was emptied in mid-rotation: the engine idles at index 1 next to
\* the live browser
C16_Witness ==
    \E e \in Engines :
        /\ epc[e] = "empty_sleep"
        /\ current_index[e] = 1
        /\ pidfile \in alive

\* C17: isAlive is self-healing.  is_chromium_running answers yes exactly
\* when the pid file exists and names a live process, and then leaves the
\* file alone; otherwise it answers no and no pid is recorded any more.
C17_IsAliveSelfHealing ==
    [][\A e \in Engines :
          (epc[e] = "nav" /\ epc'[e] \notin {"nav", "cleanup"})
          => IF pidfile # 0 /\ pidfile \in alive
             THEN epc'[e] = "inplace" /\ pidfile' = pidfile
             ELSE epc'[e] = "start_pkill" /\ pidfile' = 0]_vars

\* the recorded browser has died and the check has removed its pid file
C17_Witness ==
    \E e \in Engines :
        /\ epc[e] = "start_pkill"
        /\ crashed
        /\ pidfile = 0

\* C18: single browser instance.  Every running browser has ended when
\* start_chromium goes on from its pkill and settle delay to the launch, the
\* pid it records is that of the process it launched, and a live browser
\* that the engine launched is the recorded one whenever the engine dwells.
C18_SingleBrowser ==
    /\ [](\A e \in Engines :
            epc[e] \in {"dwell", "transition", "advance"} => fdInherit \subseteq {pidfile})
    /\ [][\A e \in Engines :
             /\ (epc[e] = "start_pkill" /\ epc'[e] = "start_launch") => alive' = {}
             /\ (epc[e] = "start_record" /\ epc'[e] = "dwell")
                => pidfile' = chromium_pid[e]]_vars

\* C19: stop.  When the shutdown handler has sent its termination requests
\* (kill of the recorded pid, pkill), the process whose pid was recorded has
\* ended, by a forced kill if need be, and no pid is recorded any more.
C19_StopEscalates ==
    [][\A e \in Engines :
          (epc[e] = "cleanup_pkill" /\ epc'[e] = "cleanup_exit")
          => (pidfile' = 0 /\ pid[e] \notin alive')]_vars

\* C20: repeated signals.  A run of the lock holder that got two or more
\* termination signals ends like a run that got one: status 0, no pid
\* recorded, no browser left running.
C20_RepeatedSignals ==
    [][\A e \in Engines :
          (e \in holders /\ nsig[e] >= 2 /\ epc[e] = "cleanup_exit" /\ epc'[e] = "exited")
          => /\ exitStatus'[e] = 0
             /\ pidfile' = 0
             /\ alive' = {}]_vars

(***************************************************************************)
(* Properties of the dashboard's configuration store                       *)
(***************************************************************************)
\* a load has returned to its caller and the files are as it left them
LoadDone == lastop = "load" /\ dpc = "idle"
\* ... and it found them as they are now
LoadOnly == LoadDone /\ wrote = "none"

\* the file gives no value: absent, unreadable or not JSON
Unusable(f) == f.kind # "json"

\* the item passes the validation of the specification
ItemValid(it) ==
    /\ UrlParses(it.url)
    /\ it.timeout = Null \/ it.timeout >= MinTimeout

\* a rotation configuration of the persisted schema
IsRotationConfig(v) == v.shape \in {"object", "object_idx"} /\ v.uk = "list"

\* a valid configuration of the persisted schema
ValidConfig(v) ==
    /\ v.shape = "object"
    /\ v.uk = "list"
    /\ v.urls # << >>
    /\ \A i \in DOMAIN v.urls : ~v.urls[i].str /\ ItemValid(v.urls[i])
    /\ v.globalTimeout >= MinTimeout
    /\ v.transitionDelay >= 0

\* C21: load fails soft.  Whatever the primary and the backup file are
\* (absent, unreadable, not JSON, of a wrong shape, a legacy array with an
\* unparsable URL), a load returns a configuration to its caller and raises
\* nothing; when both files are absent or unparsable it returns the
\* built-in defaults.
C21_LoadFailsSoft ==
    LoadDone =>
        /\ loaded # Raised
        /\ IsRotationConfig(loaded)
        /\ (wrote = "none" /\ Unusable(configFile) /\ Unusable(backupFile))
             => loaded = defaultConfig

\* C22: backup fallback.  A load that finds the primary file absent and a
\* valid configuration in the backup file returns the backup's
\* configuration, and every later load returns that configuration too,
\* until a save replaces it.
C22_BackupFallback ==
    /\ [](LoadOnly /\ configFile = Absent /\ backupFile.kind = "json"
            /\ ValidConfig(backupFile.value) => loaded = backupFile.value)
    /\ [][(dpc = "idle" /\ dpc' = "idle" /\ lastop' = "load" /\ timer' = timer
             /\ restored # NoValue) => loaded' = restored]_vars

\* C23: backup-then-defaults.  A load that finds the primary file corrupt
\* and a valid configuration in the backup file returns the backup's
\* configuration; it returns the built-in defaults only when the backup is
\* unusable too.
C23_CorruptPrimary ==
    (LoadOnly /\ configFile = NotJson) =>
        /\ (backupFile.kind = "json" /\ ValidConfig(backupFile.value))
             => loaded = backupFile.value
        /\ loaded = defaultConfig
             => (Unusable(backupFile) \/ backupFile = stringify(defaultConfig))

\* the valid items of a list, in their order
Retained(u) == SelectSeq(u, ItemValid)

\* C24: validation on load.  A load of a file of the current schema returns
\* the file's configuration with exactly the valid items of its list, in
\* their order, or the built-in defaults when no item is valid; no load
\* returns an item whose URL does not parse or whose timeout is below 1000.
C24_ValidationOnLoad ==
    /\ LoadDone =>
         \A i \in DOMAIN loaded.urls : ItemValid(loaded.urls[i])
    /\ (LoadOnly /\ configFile.kind = "json" /\ configFile.value.shape = "object"
          /\ configFile.value.uk = "list")
         => loaded = IF Retained(configFile.value.urls) = << >> THEN defaultConfig
                     ELSE [spread(configFile.value) EXCEPT
                             !.urls = Retained(configFile.value.urls)]

\* a step of a load that returns to its caller
LoadStep == dpc = "idle" /\ dpc' = "idle" /\ lastop' = "load" /\ timer' = timer

\* C25: migration idempotence.  When a load has upgraded a legacy file and
\* rewritten it, the next load returns the same structure, of the current
\* schema, and writes nothing.
C25_MigrationIdempotent ==
    [][(LoadStep /\ lastop = "load" /\ wrote \in {"ok", "bfail", "btorn"}) =>
          /\ loaded' = loaded
          /\ loaded'.shape = "object"
          /\ \A i \in DOMAIN loaded'.urls :
                ~loaded'.urls[i].str /\ loaded'.urls[i].name # Null
          /\ wrote' = "none"
          /\ configFile' = configFile
          /\ backupFile' = backupFile]_vars

\* a legacy file was loaded twice
C25_Witness ==
    LET m == migratedConfig(ArrayValue(<< DItem(1, ItemTimeout, Null), SItem(2) >>))
    IN /\ LoadOnly
       /\ loaded = m
       /\ configFile = stringify(m)
       /\ backupFile = configFile
       /\ m.urls[2] = DItem(2, DefaultTimeout, hostname(2))

\* C26: save writes the primary file, then the backup file.  After a save
\* whose two writes succeeded the two files are identical; when a save is
\* interrupted or fails between its two writes, the backup holds the
\* complete content of the previous successful save; a save whose primary
\* write failed leaves the backup as it was.
C26_SaveOrder ==
    /\ [](wrote = "ok" => configFile = backupFile)
    /\ []((wrote \in {"bfail", "killed"} /\ lastGood # NoSave) => backupFile = lastGood)
    /\ [][wrote' \in {"pfail", "ptorn"} => backupFile' = backupFile]_vars

\* C27: round trip.  A load of the file that a save of a valid
\* configuration has written returns that configuration, and a save of what
\* the load returned leaves both files with that configuration again.
C27_RoundTrip ==
    [][/\ (LoadStep /\ configFile = lastGood /\ ValidConfig(lastGood.value))
            => loaded' = lastGood.value
       /\ (dpc = "idle" /\ lastop = "load" /\ wrote = "none" /\ configFile = lastGood
             /\ ValidConfig(lastGood.value) /\ lastop' = "repost" /\ wrote' = "ok")
            => (configFile' = lastGood /\ backupFile' = lastGood)]_vars

\* a configuration with an item without timeout and name went round
C27_Witness ==
    /\ lastop = "repost"
    /\ wrote = "ok"
    /\ req = ObjectValue(<< GoodB, GoodA >>, GlobalTimeout, 0)
    /\ configFile = stringify(req)
    /\ backupFile = configFile

\* C28: consistent snapshot within a tick.  Whatever rewrites of the
\* configuration file fall between the reads of a tick, the URL the engine
\* is about to navigate to is the url of an existing item of one version of
\* the file, and the item count of the tick is the count of that version:
\* the engine never navigates to a missing item (the output "null").
C28_ConsistentSnapshot ==
    \A e \in Engines :
        epc[e] = "nav" =>
            /\ current_url[e] # Null
            /\ \E f \in Files \cup BadItemConfigs :
                 /\ IsConfig(f)
                 /\ url_count[e] = Len(f.urls)
                 /\ current_index[e] + 1 \in DOMAIN f.urls
                 /\ current_url[e] = f.urls[current_index[e] + 1].url

\* a step of the handler of POST /api/urls up to its save or its rejection
PostStep ==
    /\ dpc = "idle"
    /\ lastop' \in {"post", "repost"}
    /\ dpc' # "idle" \/ timer' = timer

\* the request is one that the validation is said to reject
ClaimRejects(r) ==
    \/ r.uk # "list"
    \/ r.urls = << >>
    \/ \E i \in DOMAIN r.urls :
         \/ r.urls[i].url \in {Null, ItemAsUrl}
         \/ ~UrlParses(r.urls[i].url)
         \/ r.urls[i].timeout # Null
              /\ (r.urls[i].timeout = TextTimeout \/ r.urls[i].timeout < MinTimeout)

\* C29: POST /api/urls is all-or-nothing.  A request that the validation
\* rejects (urls missing, no array or empty; an item url missing, no string
\* or unparsable; an item timeout that is no number or below 1000) leaves
\* both files unchanged, is answered with a failure and schedules no
\* restart; for an accepted request the configuration is on file before the
\* success response, and the restart is scheduled only after the response.
C29_PostAllOrNothing ==
    [][/\ (PostStep /\ ClaimRejects(req'))
            => /\ configFile' = configFile
               /\ backupFile' = backupFile
               /\ response' = "fail"
               /\ dpc' = "idle"
               /\ timer' = timer
       /\ (dpc = "respond" /\ response' = "ok") => configFile = stringify(req)
       /\ (dpc = "arm" /\ timer') => response = "ok"]_vars

\* C30: success only if persisted.  The success response is sent and the
\* restart is scheduled only when the write of the primary file has taken
\* place: after a failed write the response reports a failure and no
\* restart is scheduled.
C30_SuccessOnlyIfPersisted ==
    [][/\ (dpc = "respond" /\ response' = "ok")
            => (wrote \in {"ok", "bfail", "btorn"} /\ configFile = stringify(req))
       /\ (dpc = "arm" /\ timer')
            => (wrote \in {"ok", "bfail", "btorn"} /\ configFile = stringify(req))
       /\ (PostStep /\ wrote' \in {"pfail", "ptorn"})
            => (response' = "fail" /\ dpc' = "idle")]_vars

\* the configuration file as the engine's jq readers see a value
EngineView(v) ==
    [kind |-> "json",
     urls |-> [i \in DOMAIN v.urls |-> [url |-> v.urls[i].url, timeout |-> v.urls[i].timeout]],
     globalTimeout |-> v.globalTimeout, transitionDelay |-> v.transitionDelay]

\* C31: every configuration that POST /api/urls has put on file satisfies
\* the data model (a non-empty list, urls that parse, item timeouts absent
\* or at least 1000, globalTimeout at least 1000, transitionDelay at least
\* 0), and the engine computes no dwell below 1000 ms from it.
C31_PersistedDataModel ==
    (lastop \in {"post", "repost"} /\ wrote \in {"ok", "bfail", "btorn"}) =>
        /\ configFile = stringify(req)
        /\ ValidConfig(req)
        /\ \A i \in DOMAIN req.urls : get_timeout(EngineView(req), i - 1) >= MinTimeout

\* C32: the start-up initialisation destroys no recoverable configuration.
\* When the process starts with the primary file absent and a valid
\* configuration in the backup file, the backup is left as it is and a load
\* after the start-up returns the backup's configuration.
C32_StartupKeepsBackup ==
    [][(dpc = "down" /\ lastop' = "boot" /\ configFile = Absent
          /\ backupFile.kind = "json" /\ ValidConfig(backupFile.value))
         => /\ backupFile' = backupFile
            /\ loadConfig(configFile', backupFile', "ok").result = backupFile.value]_vars

\* floor(t / 1000)
FloorSec(t) ==
    CHOOSE n \in 0..(MaxDwellSec + 1) : n * MsPerSec <= t /\ t < (n + 1) * MsPerSec

\* C33: dwell sleep total.  For every timeout t >= 0 in milliseconds,
\* wait_with_progress has slept floor(t / 1000) seconds in all when it
\* returns, with the progress branch (more than 10 seconds, in sleeps of 10
\* seconds and a last remainder) and without it, and it always returns.
C33_DwellSleepTotal ==
    /\ [][\A e \in Engines :
            (epc[e] = "dwell" /\ epc'[e] # "dwell" /\ sleep_left[e] # NoSleep)
                => slept[e] = FloorSec(timeout[e])]_vars
    /\ \A e \in Engines : (epc[e] = "dwell") ~> (epc[e] # "dwell")

\* a dwell of 25.5 seconds has slept 10, 10 and 5 seconds and is about to return
C33_Witness ==
    \E e \in Engines :
        /\ epc[e] = "dwell"
        /\ timeout[e] = 25 * MsPerSec + MsPerSec \div 2
        /\ elapsed[e] = 2 * progress_interval
        /\ sleep_left[e] = 0
        /\ slept[e] = 25
====
